---- MODULE Spec2Model ----
(***************************************************************************)
(* A model of src/apns.go: the APNs client's send loop (sendLoop), the     *)
(* per-connection error reader (readError), the public operations Send and  *)
(* Close, and the callers that use them concurrently.                       *)
(*                                                                          *)
(* Go channels of capacity 0 (sendChan, errorChan, every arg.err and quit)  *)
(* are rendezvous: a send and its receive are ONE joint action, enabled     *)
(* only when both parties stand at the two ends.                            *)
(*                                                                          *)
(* Apn.conn is read and written without synchronisation by sendLoop and by  *)
(* every caller of the public Close; each access to it is therefore its own *)
(* step, so every interleaving of the accesses is explored.                 *)
(***************************************************************************)
EXTENDS Integers, Sequences, FiniteSets, TLC

(***************************************************************************)
(* Bounds of the model.                                                     *)
(***************************************************************************)
MaxSends == 2
MaxCloses == 2
MaxServerFrames == 1

Senders == {"s1", "s2"}
Closers == {"k1"}
SockIds == 1 .. MaxSends
Reqs == 1 .. MaxSends

Nil == 0
NoArg == "none"

\* the values NewNotificationError is called with (lines 171, 181): the bytes
\* of a server frame read from socket k, the failure of a read from socket
\* k, the failure of the send loop's own Close
Events == [kind : {"frame", "readErr"}, sock : SockIds]
              \cup {[kind |-> "closeErr", sock |-> Nil]}

(***************************************************************************)
(* Apn.identifier is a uint32.  TLC's integers are 32-bit signed, so the    *)
(* value is kept as two 16-bit halves <<hi, lo>>, standing for              *)
(* hi * 65536 + lo.                                                         *)
(***************************************************************************)
HalfWord == 65536

IdZero == <<0, 0>>

IdMax == <<HalfWord - 1, HalfWord - 1>>

IdLess(a, b) == \/ a[1] < b[1]
                \/ a[1] = b[1] /\ a[2] < b[2]

\* a.identifier left untouched: the increment of line 140 forgotten
NextIdentifier_same(id) == id

\* line 140: a.identifier += 1, on a uint32 (wraps to 0 after 2^32 - 1)
NextIdentifier(id) ==
    IF id[2] + 1 < HalfWord
    THEN <<id[1], id[2] + 1>>
    ELSE <<(id[1] + 1) % HalfWord, 0>>

\* one more frame handed to Write: a count that does not wrap at 2^32
CountNext(c) ==
    IF c[3] + 1 < HalfWord THEN <<c[1], c[2], c[3] + 1>>
    ELSE IF c[2] + 1 < HalfWord THEN <<c[1], c[2] + 1, 0>>
    ELSE <<c[1] + 1, 0, 0>>

(***************************************************************************)
(* Notifications.  A device token is a string, kept as a sequence of        *)
(* characters; a payload is kept as the length of its JSON serialisation.   *)
(***************************************************************************)
HexDigits == {"0", "1", "2", "3", "4", "5", "6", "7", "8", "9",
              "a", "b", "c", "d", "e", "f",
              "A", "B", "C", "D", "E", "F"}

\* line 115: hex.DecodeString fails on an odd length or a non-hex character
HexDecodeOK(token) ==
    /\ Len(token) % 2 = 0
    /\ \A i \in 1 .. Len(token) : token[i] \in HexDigits

maxPayloadBytes == 256

\* a ceiling that lets one byte more through
PayloadTooLarge_oneMore(plen) == plen > maxPayloadBytes + 1

\* line 124
PayloadTooLarge(plen) == plen > maxPayloadBytes

Notifications ==
    { [token |-> <<"a", "b", "1", "2">>, plen |-> 256],
      [token |-> <<"a", "b", "1", "2">>, plen |-> 257],
      [token |-> <<"z", "z">>,           plen |-> 10],
      [token |-> <<"a", "b", "1">>,      plen |-> 10] }

\* lines 115-126: send() returns before any frame is built
Rejected(n) == ~HexDecodeOK(n.token) \/ PayloadTooLarge(n.plen)

(***************************************************************************)
(* The push-request frame of send() (lines 128-138): binary.Write with       *)
(* binary.BigEndian into a bytes.Buffer.  A uint32 is a pair of 16-bit       *)
(* halves, a byte an integer in 0 .. 255.                                    *)
(***************************************************************************)
\* a uint16 written low byte first
LE16(n) == <<n % 256, n \div 256>>

\* binary.Write(.., binary.BigEndian, uint16)
BE16(n) == <<n \div 256, n % 256>>

\* binary.Write(.., binary.BigEndian, uint32)
BE32(w) == BE16(w[1]) \o BE16(w[2])

\* lines 130-138; uint16(len(..)) keeps the low 16 bits of the length
EncodePushFrame(id, expiry, tokenbin, payloadbyte) ==
    <<1>> \o BE32(id) \o BE32(expiry)
          \o BE16(Len(tokenbin) % HalfWord) \o tokenbin
          \o BE16(Len(payloadbyte) % HalfWord) \o payloadbyte

\* len bytes of content that differ from place to place
Fill(len, seed) == [i \in 1 .. len |-> (seed + 7 * i) % 256]

CodecIds == {IdZero, <<0, 1>>, <<0, 256>>, <<1, 0>>, <<258, 772>>, IdMax}
CodecExpiries == {IdZero, <<25923, 8702>>, IdMax}
CodecTokens ==
    {<<>>, <<0>>, <<255>>, Fill(32, 3), Fill(255, 1), Fill(256, 2), Fill(257, 0), Fill(65535, 5)}
CodecPayloads == {<<>>, <<123>>, Fill(255, 11), Fill(256, 13)}
CodecInputs == [id : CodecIds, expiry : CodecExpiries, token : CodecTokens, payload : CodecPayloads]

VARIABLES
    pc,          \* sendLoop: the line it stands at
    arg,         \* sendLoop: the sender whose sendArg it holds, or NoArg
    result,      \* sendLoop: the error value about to go to arg.err
    quit,        \* sendLoop: the socket whose reader holds the other end of quit
    closeFor,    \* sendLoop: which call of Close it is in ("connect", "teardown")
    lconn,       \* sendLoop: Close's local conn (line 82)
    conn,        \* Apn.conn: a socket, or Nil
    identifier,  \* Apn.identifier
    sock,        \* every socket net.Dial could return: "free", "open", "closed"
    reader,      \* readError, one per connection
    sender,      \* the callers of Send
    closer,      \* the callers of Close
    nSends,      \* Send calls made so far
    nFrames,     \* error frames the server has sent so far
    crashed,     \* "no", or the panic that ended the process
    \* history, read by the properties only
    log,         \* <<"acc"|"op"|"res", request>> in the order they happened
    frames,      \* the frames send() built, in order
    res,         \* per request, the results delivered on its channel
    attempts,    \* per request, the connect attempts made for it
    events,      \* what the error stream's consumer received: event -> how often
    idAtAcc,     \* identifier when the current request was dequeued
    afterClose,  \* a caller's Close has returned and no connect ran since
    leftBy,      \* why Active was last left: "none", "quit", "timeout"
    nBuilt,      \* frames handed to a.conn.Write so far, as <<carry, hi, lo>>
    \* the frame codec on its own (read by SpecCodec only)
    codec        \* [stage, in, wire, out]

loopVars == <<pc, arg, result, quit, closeFor, lconn>>
apnVars == <<conn, identifier>>
envVars == <<sock, reader, sender, closer, nSends, nFrames, crashed>>
histVars == <<log, frames, res, attempts, events, idAtAcc, afterClose, leftBy, nBuilt>>
vars == <<loopVars, apnVars, envVars, histVars, codec>>

Live == crashed = "no"

\* the codec is not being exercised: the state of it in the running client
CodecOff == [stage |-> "off", in |-> <<>>, wire |-> <<>>, out |-> <<>>]

ReqOf(s) == sender[s].req

\* New (lines 35-56): no connection, identifier 0, sendLoop started
InitClient(id) ==
    /\ pc = "recv"
    /\ arg = NoArg
    /\ result = "none"
    /\ quit = Nil
    /\ closeFor = "connect"
    /\ lconn = Nil
    /\ conn = Nil
    /\ identifier = id
    /\ sock = [k \in SockIds |-> "free"]
    /\ reader = [k \in SockIds |-> "none"]
    /\ sender = [s \in Senders |-> [pc |-> "idle", n |-> CHOOSE n \in Notifications : TRUE, req |-> 0]]
    /\ closer = [k \in Closers |-> [pc |-> "idle", conn |-> Nil, calls |-> 0, last |-> "none"]]
    /\ nSends = 0
    /\ nFrames = 0
    /\ crashed = "no"
    /\ log = <<>>
    /\ frames = <<>>
    /\ res = [r \in Reqs |-> <<>>]
    /\ attempts = [r \in Reqs |-> 0]
    /\ events = [e \in Events |-> 0]
    /\ idAtAcc = id
    /\ afterClose = FALSE
    /\ leftBy = "none"
    /\ nBuilt = <<0, id[1], id[2]>>

InitWith(id) ==
    /\ InitClient(id)
    /\ codec = CodecOff

Init == InitWith(IdZero)


(***************************************************************************)
(* Close (lines 78-85), as run by a caller and as run by sendLoop.          *)
(***************************************************************************)
\* the nil check of line 79 left out
ConnIsNil_unchecked(c) == FALSE

\* line 79: a.conn == nil
ConnIsNil(c) == c = Nil

\* line 84: conn.Close() on a *tls.Conn closes the socket whatever it returns;
\* it may fail on an open socket (the close-notify alert cannot be written)
\* and does fail on one that is closed already
CloseOutcomes(c) == IF sock[c] = "open" THEN {"ok", "err"} ELSE {"err"}

\* what Close returned to its caller, from what the call did: nil when it
\* found a.conn nil (line 80) or conn.Close() succeeded, else the error
CloseReturn(last) == IF last \in {"noop", "ok"} THEN "nil" ELSE "error"

DefaultNotification == CHOOSE n \in Notifications : TRUE

\* lines 78-81: a caller enters Close and tests a.conn
CloseCall(k) ==
    /\ Live
    /\ closer[k].pc = "idle"
    /\ closer[k].calls < MaxCloses
    /\ IF ConnIsNil(conn)
       THEN /\ closer' = [closer EXCEPT ![k] = [pc |-> "idle", conn |-> Nil,
                              calls |-> @.calls + 1, last |-> "noop"]]
            /\ afterClose' = TRUE
       ELSE /\ closer' = [closer EXCEPT ![k] = [pc |-> "c82", conn |-> Nil,
                              calls |-> @.calls + 1, last |-> "none"]]
            /\ UNCHANGED afterClose
    /\ UNCHANGED <<loopVars, apnVars, sock, reader, sender, nSends, nFrames, crashed>>
    /\ UNCHANGED <<log, frames, res, attempts, events, idAtAcc, leftBy>>
    /\ UNCHANGED <<nBuilt, codec>>

\* line 82: conn := a.conn
CloseRead(k) ==
    /\ Live
    /\ closer[k].pc = "c82"
    /\ closer' = [closer EXCEPT ![k].pc = "c83", ![k].conn = conn]
    /\ UNCHANGED <<loopVars, apnVars, sock, reader, sender, nSends, nFrames, crashed, histVars>>
    /\ UNCHANGED codec

\* line 83: a.conn = nil
CloseClear(k) ==
    /\ Live
    /\ closer[k].pc = "c83"
    /\ conn' = Nil
    /\ closer' = [closer EXCEPT ![k].pc = "c84"]
    /\ UNCHANGED <<loopVars, identifier, sock, reader, sender, nSends, nFrames, crashed, histVars>>
    /\ UNCHANGED codec

\* line 84: return conn.Close(); a nil *tls.Conn panics
CloseSocket(k) ==
    /\ Live
    /\ closer[k].pc = "c84"
    /\ IF closer[k].conn = Nil
       THEN /\ crashed' = "callerClose"
            /\ UNCHANGED <<closer, sock, afterClose>>
       ELSE /\ \E o \in CloseOutcomes(closer[k].conn) :
                 closer' = [closer EXCEPT ![k].pc = "idle", ![k].conn = Nil, ![k].last = o]
            /\ sock' = [sock EXCEPT ![closer[k].conn] = "closed"]
            /\ afterClose' = TRUE
            /\ UNCHANGED crashed
    /\ UNCHANGED <<loopVars, apnVars, reader, sender, nSends, nFrames>>
    /\ UNCHANGED <<log, frames, res, attempts, events, idAtAcc, leftBy>>
    /\ UNCHANGED <<nBuilt, codec>>

\* where sendLoop goes when its Close returned nil: on into connect (line 94),
\* or round the loop (line 174)
AfterCloseOk == IF closeFor = "connect" THEN "dial" ELSE "recv"

\* where it goes when its Close returned an error: connect returns it (line
\* 91), the teardown publishes it (line 172)
AfterCloseErr == IF closeFor = "connect" THEN "replyErr" ELSE "publish"

\* lines 79-81, called from line 89 or line 169
LoopCloseCheck ==
    /\ Live
    /\ pc = "close79"
    /\ pc' = IF ConnIsNil(conn) THEN AfterCloseOk ELSE "close82"
    /\ UNCHANGED <<arg, result, quit, closeFor, lconn, apnVars, envVars, histVars>>
    /\ UNCHANGED codec

\* line 82
LoopCloseRead ==
    /\ Live
    /\ pc = "close82"
    /\ lconn' = conn
    /\ pc' = "close83"
    /\ UNCHANGED <<arg, result, quit, closeFor, apnVars, envVars, histVars>>
    /\ UNCHANGED codec

\* line 83
LoopCloseClear ==
    /\ Live
    /\ pc = "close83"
    /\ conn' = Nil
    /\ pc' = "close84"
    /\ UNCHANGED <<arg, result, quit, closeFor, lconn, identifier, envVars, histVars>>
    /\ UNCHANGED codec

\* line 84
LoopCloseSocket ==
    /\ Live
    /\ pc = "close84"
    /\ IF lconn = Nil
       THEN /\ crashed' = "loopClose"
            /\ UNCHANGED <<pc, result, lconn, sock>>
       ELSE /\ \E o \in CloseOutcomes(lconn) :
                 /\ pc' = IF o = "ok" THEN AfterCloseOk ELSE AfterCloseErr
                 /\ result' = IF o = "err" /\ closeFor = "connect" THEN "connErr" ELSE result
            /\ sock' = [sock EXCEPT ![lconn] = "closed"]
            /\ lconn' = Nil
            /\ UNCHANGED crashed
    /\ UNCHANGED <<arg, quit, closeFor, apnVars, reader, sender, closer, nSends, nFrames, histVars>>
    /\ UNCHANGED codec

(***************************************************************************)
(* Send (lines 63-71).                                                      *)
(***************************************************************************)
\* line 70 with line 153, 156 or 165: the caller receives from its channel
Delivered(s) ==
    [sender EXCEPT ![s] = [pc |-> "idle", n |-> DefaultNotification, req |-> 0]]


(***************************************************************************)
(* sendLoop (lines 148-175), with connect (87-110) and send (114-146).      *)
(***************************************************************************)
\* lines 64-69: a caller builds its sendArg and hands it over on sendChan;
\* it then waits on its own channel (line 70)
Enqueued(s, n) ==
    /\ sender[s].pc = "idle"
    /\ nSends < MaxSends
    /\ nSends' = nSends + 1
    /\ sender' = [sender EXCEPT ![s] = [pc |-> "waiting", n |-> n, req |-> nSends + 1]]
    /\ arg' = s
    /\ log' = Append(log, <<"acc", nSends + 1>>)
    /\ idAtAcc' = identifier
    /\ UNCHANGED <<nBuilt, codec>>

\* line 150 with line 69: arg := <-apn.sendChan, then line 151 calls connect,
\* whose first statement is the Close of line 89
Recv(s, n) ==
    /\ Live
    /\ pc = "recv"
    /\ Enqueued(s, n)
    /\ pc' = "close79"
    /\ closeFor' = "connect"
    /\ leftBy' = "none"
    /\ UNCHANGED <<result, quit, lconn, apnVars, sock, reader, closer, nFrames, crashed>>
    /\ UNCHANGED <<frames, res, attempts, events, afterClose>>

\* net.Dial returns the next socket the system has not handed out yet
FreeSock == CHOOSE k \in SockIds :
                /\ sock[k] = "free"
                /\ \A j \in SockIds : sock[j] = "free" => k <= j

ConnectAttempt ==
    /\ Live
    /\ pc = "dial"
    /\ attempts' = [attempts EXCEPT ![ReqOf(arg)] = @ + 1]
    /\ log' = Append(log, <<"op", ReqOf(arg)>>)
    /\ afterClose' = FALSE
    /\ UNCHANGED <<nBuilt, codec>>

\* lines 94-97: net.Dial fails
ConnectDialFail ==
    /\ ConnectAttempt
    /\ result' = "connErr"
    /\ pc' = "replyErr"
    /\ UNCHANGED <<arg, quit, closeFor, lconn, apnVars, envVars>>
    /\ UNCHANGED <<frames, res, events, idAtAcc, leftBy>>

\* a.conn assigned before the handshake is known to have succeeded
ConnectHandshakeFail_assigns ==
    /\ ConnectAttempt
    /\ sock' = [sock EXCEPT ![FreeSock] = "open"]
    /\ conn' = FreeSock
    /\ result' = "connErr"
    /\ pc' = "replyErr"
    /\ UNCHANGED <<arg, quit, closeFor, lconn, identifier>>
    /\ UNCHANGED <<reader, sender, closer, nSends, nFrames, crashed>>
    /\ UNCHANGED <<frames, res, events, idAtAcc, leftBy>>

\* lines 94-103: net.Dial succeeds, the handshake fails; connect returns
\* without closing the socket net.Dial opened
ConnectHandshakeFail ==
    /\ ConnectAttempt
    /\ sock' = [sock EXCEPT ![FreeSock] = "open"]
    /\ result' = "connErr"
    /\ pc' = "replyErr"
    /\ UNCHANGED <<arg, quit, closeFor, lconn, apnVars>>
    /\ UNCHANGED <<reader, sender, closer, nSends, nFrames, crashed>>
    /\ UNCHANGED <<frames, res, events, idAtAcc, leftBy>>

\* lines 94-109: both succeed; a.conn is set and readError started
ConnectOK ==
    /\ ConnectAttempt
    /\ sock' = [sock EXCEPT ![FreeSock] = "open"]
    /\ conn' = FreeSock
    /\ quit' = FreeSock
    /\ reader' = [reader EXCEPT ![FreeSock] = "reading"]
    /\ pc' = "send"
    /\ UNCHANGED <<arg, result, closeFor, lconn, identifier>>
    /\ UNCHANGED <<sender, closer, nSends, nFrames, crashed>>
    /\ UNCHANGED <<frames, res, events, idAtAcc, leftBy>>

\* the result goes nowhere and the loop goes on
ReplyConnectError_dropped ==
    /\ Live
    /\ pc = "replyErr"
    /\ arg' = NoArg
    /\ result' = "none"
    /\ pc' = "recv"
    /\ UNCHANGED <<quit, closeFor, lconn, apnVars, envVars, histVars>>
    /\ UNCHANGED codec

\* lines 152-155: arg.err <- err; continue
ReplyConnectError ==
    /\ Live
    /\ pc = "replyErr"
    /\ sender[arg].pc = "waiting"
    /\ sender' = Delivered(arg)
    /\ res' = [res EXCEPT ![ReqOf(arg)] = Append(@, result)]
    /\ log' = Append(log, <<"res", ReqOf(arg)>>)
    /\ arg' = NoArg
    /\ result' = "none"
    /\ pc' = "recv"
    /\ UNCHANGED <<quit, closeFor, lconn, apnVars, sock, reader, closer, nSends, nFrames, crashed>>
    /\ UNCHANGED <<frames, attempts, events, idAtAcc, afterClose, leftBy>>
    /\ UNCHANGED <<nBuilt, codec>>

\* line 141: Write on a socket that is closed fails; on an open one it may
WriteOutcomes(c) == IF sock[c] = "open" THEN {"ok", "writeErr"} ELSE {"writeErr"}

\* lines 114-146, called from line 156 or line 165.  The frame is built and
\* the identifier incremented before a.conn is read for the Write; a nil
\* a.conn panics there.
\* send() with identifiers as success-sequence numbers: a failed write gives
\* its identifier back
DoSend_onSuccess ==
    /\ Live
    /\ pc = "send"
    /\ log' = Append(log, <<"op", ReqOf(arg)>>)
    /\ IF Rejected(sender[arg].n)
       THEN /\ result' = "encErr"
            /\ pc' = "reply"
            /\ UNCHANGED <<identifier, frames, crashed, nBuilt>>
       ELSE /\ frames' = Append(frames, [id |-> identifier, req |-> ReqOf(arg), sock |-> conn])
            /\ nBuilt' = CountNext(nBuilt)
            /\ IF conn = Nil
               THEN /\ crashed' = "loopWrite"
                    /\ identifier' = NextIdentifier(identifier)
                    /\ UNCHANGED <<pc, result>>
               ELSE /\ \E o \in WriteOutcomes(conn) :
                        /\ result' = o
                        /\ identifier' = IF o = "ok" THEN NextIdentifier(identifier)
                                                     ELSE identifier
                    /\ pc' = "reply"
                    /\ UNCHANGED crashed
    /\ UNCHANGED <<arg, quit, closeFor, lconn, conn>>
    /\ UNCHANGED <<sock, reader, sender, closer, nSends, nFrames>>
    /\ UNCHANGED <<res, attempts, events, idAtAcc, afterClose, leftBy>>
    /\ UNCHANGED codec

DoSend ==
    /\ Live
    /\ pc = "send"
    /\ log' = Append(log, <<"op", ReqOf(arg)>>)
    /\ IF Rejected(sender[arg].n)
       THEN /\ result' = "encErr"
            /\ pc' = "reply"
            /\ UNCHANGED <<identifier, frames, crashed, nBuilt>>
       ELSE /\ frames' = Append(frames, [id |-> identifier, req |-> ReqOf(arg), sock |-> conn])
            /\ identifier' = NextIdentifier(identifier)
            /\ nBuilt' = CountNext(nBuilt)
            /\ IF conn = Nil
               THEN /\ crashed' = "loopWrite"
                    /\ UNCHANGED <<pc, result>>
               ELSE /\ \E o \in WriteOutcomes(conn) : result' = o
                    /\ pc' = "reply"
                    /\ UNCHANGED crashed
    /\ UNCHANGED <<arg, quit, closeFor, lconn, conn>>
    /\ UNCHANGED <<sock, reader, sender, closer, nSends, nFrames>>
    /\ UNCHANGED <<res, attempts, events, idAtAcc, afterClose, leftBy>>
    /\ UNCHANGED codec

\* lines 156 and 165: arg.err <- apn.send(arg.n), then the select of line 159
Reply ==
    /\ Live
    /\ pc = "reply"
    /\ sender[arg].pc = "waiting"
    /\ sender' = Delivered(arg)
    /\ res' = [res EXCEPT ![ReqOf(arg)] = Append(@, result)]
    /\ log' = Append(log, <<"res", ReqOf(arg)>>)
    /\ arg' = NoArg
    /\ result' = "none"
    /\ pc' = "select"
    /\ UNCHANGED <<quit, closeFor, lconn, apnVars, sock, reader, closer, nSends, nFrames, crashed>>
    /\ UNCHANGED <<frames, attempts, events, idAtAcc, afterClose, leftBy>>
    /\ UNCHANGED <<nBuilt, codec>>

LeaveActive(why) ==
    /\ pc' = "close79"
    /\ closeFor' = "teardown"
    /\ leftBy' = why
    /\ UNCHANGED <<nBuilt, codec>>

\* lines 160-161 with line 184: the reader's quit <- 1 is received
SelectQuit ==
    /\ Live
    /\ pc = "select"
    /\ quit # Nil
    /\ reader[quit] = "signal"
    /\ reader' = [reader EXCEPT ![quit] = "done"]
    /\ LeaveActive("quit")
    /\ UNCHANGED <<arg, result, quit, lconn, apnVars, sock, sender, closer, nSends, nFrames, crashed>>
    /\ UNCHANGED <<log, frames, res, attempts, events, idAtAcc, afterClose>>

\* lines 162-163: the timer made by this pass of the select fires
SelectTimeout ==
    /\ Live
    /\ pc = "select"
    /\ LeaveActive("timeout")
    /\ UNCHANGED <<arg, result, quit, lconn, apnVars, envVars>>
    /\ UNCHANGED <<log, frames, res, attempts, events, idAtAcc, afterClose>>

\* line 164 with line 69: a request is received while connected
SelectRecv(s, n) ==
    /\ Live
    /\ pc = "select"
    /\ Enqueued(s, n)
    /\ pc' = "send"
    /\ UNCHANGED <<result, quit, closeFor, lconn, apnVars, sock, reader, closer, nFrames, crashed>>
    /\ UNCHANGED <<frames, res, attempts, events, afterClose, leftBy>>

\* lines 170-173 with the consumer's receive from ErrorChan
PublishCloseError ==
    /\ Live
    /\ pc = "publish"
    /\ events' = [events EXCEPT ![[kind |-> "closeErr", sock |-> Nil]] = @ + 1]
    /\ pc' = "recv"
    /\ UNCHANGED <<arg, result, quit, closeFor, lconn, apnVars, envVars>>
    /\ UNCHANGED <<log, frames, res, attempts, idAtAcc, afterClose, leftBy>>
    /\ UNCHANGED <<nBuilt, codec>>

(***************************************************************************)
(* readError (lines 177-188), one goroutine per connection k.               *)
(***************************************************************************)
\* line 180: conn.Read returns bytes the server sent
ReadData(k) ==
    /\ Live
    /\ reader[k] = "reading"
    /\ sock[k] = "open"
    /\ nFrames < MaxServerFrames
    /\ nFrames' = nFrames + 1
    /\ reader' = [reader EXCEPT ![k] = "pubData"]
    /\ UNCHANGED <<loopVars, apnVars, sock, sender, closer, nSends, crashed, histVars>>
    /\ UNCHANGED codec

\* line 180: conn.Read fails: the server closed the connection, the network
\* failed, or the socket was closed on this side
ReadFail(k) ==
    /\ Live
    /\ reader[k] = "reading"
    /\ reader' = [reader EXCEPT ![k] = "pubErr"]
    /\ UNCHANGED <<loopVars, apnVars, sock, sender, closer, nSends, nFrames, crashed, histVars>>
    /\ UNCHANGED codec

\* lines 181-182 after a good read, with the consumer's receive
PublishData(k) ==
    /\ Live
    /\ reader[k] = "pubData"
    /\ events' = [events EXCEPT ![[kind |-> "frame", sock |-> k]] = @ + 1]
    /\ reader' = [reader EXCEPT ![k] = "reading"]
    /\ UNCHANGED <<loopVars, apnVars, sock, sender, closer, nSends, nFrames, crashed>>
    /\ UNCHANGED <<log, frames, res, attempts, idAtAcc, afterClose, leftBy>>
    /\ UNCHANGED <<nBuilt, codec>>

\* a reader that goes to its connection-loss signal with the event unpublished
PublishReadError_signalFirst(k) ==
    /\ Live
    /\ reader[k] = "pubErr"
    /\ reader' = [reader EXCEPT ![k] = "signal"]
    /\ UNCHANGED <<loopVars, apnVars, sock, sender, closer, nSends, nFrames, crashed, histVars>>
    /\ UNCHANGED codec

\* a reader that publishes the failure and goes back to reading (no return
\* after the failed read)
PublishReadError_again(k) ==
    /\ Live
    /\ reader[k] = "pubErr"
    /\ events' = [events EXCEPT ![[kind |-> "readErr", sock |-> k]] = @ + 1]
    /\ reader' = [reader EXCEPT ![k] = "reading"]
    /\ UNCHANGED <<loopVars, apnVars, sock, sender, closer, nSends, nFrames, crashed>>
    /\ UNCHANGED <<log, frames, res, attempts, idAtAcc, afterClose, leftBy>>
    /\ UNCHANGED <<nBuilt, codec>>

\* lines 181-183 after a failed read, with the consumer's receive; the
\* reader then stands at quit <- 1 (line 184)
PublishReadError(k) ==
    /\ Live
    /\ reader[k] = "pubErr"
    /\ events' = [events EXCEPT ![[kind |-> "readErr", sock |-> k]] = @ + 1]
    /\ reader' = [reader EXCEPT ![k] = "signal"]
    /\ UNCHANGED <<loopVars, apnVars, sock, sender, closer, nSends, nFrames, crashed>>
    /\ UNCHANGED <<log, frames, res, attempts, idAtAcc, afterClose, leftBy>>
    /\ UNCHANGED <<nBuilt, codec>>

Next ==
    \/ \E k \in Closers : CloseCall(k)
    \/ \E k \in Closers : CloseRead(k)
    \/ \E k \in Closers : CloseClear(k)
    \/ \E k \in Closers : CloseSocket(k)
    \/ \E s \in Senders, n \in Notifications : Recv(s, n)
    \/ LoopCloseCheck
    \/ LoopCloseRead
    \/ LoopCloseClear
    \/ LoopCloseSocket
    \/ ConnectDialFail
    \/ ConnectHandshakeFail
    \/ ConnectOK
    \/ ReplyConnectError
    \/ DoSend
    \/ Reply
    \/ SelectQuit
    \/ SelectTimeout
    \/ \E s \in Senders, n \in Notifications : SelectRecv(s, n)
    \/ PublishCloseError
    \/ \E k \in SockIds : ReadData(k)
    \/ \E k \in SockIds : ReadFail(k)
    \/ \E k \in SockIds : PublishData(k)
    \/ \E k \in SockIds : PublishReadError(k)

Spec == Init /\ [][Next]_vars


\* a client that has lived long enough to build 2^32 - 1 frames and is idle
\* again: the same state as after New, but for the identifier
InitWrap == \E id \in {IdZero, IdMax} : InitWith(id)

SpecWrap == InitWrap /\ [][Next]_vars

(***************************************************************************)
(* Properties.                                                              *)
(***************************************************************************)
OpenSocks == {k \in SockIds : sock[k] = "open"}

FramesOf(r) == {i \in 1 .. Len(frames) : frames[i].req = r}

Results(r) == {res[r][i] : i \in 1 .. Len(res[r])}

\* C1: every Send whose request was taken by the send loop gets exactly one
\* result on its own channel, the outcome of send() or a connect failure:
\* never two, and never none because the process ended while it waited.
C1_EverySendAnswered ==
    /\ \A r \in Reqs : Len(res[r]) <= 1
    /\ \A r \in Reqs : Results(r) \subseteq {"ok", "writeErr", "encErr", "connErr"}
    /\ \A s \in Senders : sender[s].pc = "waiting" => Live

\* C2: at most one socket opened by connect() is open at any instant.
C2_AtMostOneOpenSocket == Cardinality(OpenSocks) <= 1

\* C3: requests are served in the order they were taken from sendChan: when
\* a request is taken, or anything is done for it, every request taken
\* before it has had its connect attempt or write and then its result.
C3_ServedInEnqueueOrder ==
    \A i \in 1 .. Len(log) : \A j \in i + 1 .. Len(log) :
        (log[i][1] = "acc" /\ log[j][2] # log[i][2]) =>
            \E m \in i + 1 .. j - 1 :
                /\ log[m] = <<"res", log[i][2]>>
                /\ \E o \in i + 1 .. m - 1 : log[o] = <<"op", log[i][2]>>

\* two requests served, the second by a second connection
C3_Witness ==
    /\ Len(log) >= 6
    /\ log[Len(log)] = <<"res", 2>>
    /\ attempts[1] = 1
    /\ attempts[2] = 1
    /\ Len(frames) = 2

\* C4 (as claimed): the identifiers of the frames send() builds are strictly
\* increasing, for any number of sends.
C4_StrictlyIncreasing ==
    \A i \in 1 .. Len(frames) : \A j \in i + 1 .. Len(frames) :
        IdLess(frames[i].id, frames[j].id)

\* C4 (amended): each frame carries its predecessor's identifier plus one
\* modulo 2^32, whatever happened to the connection in between: strictly
\* greater unless the predecessor carried 2^32 - 1, and then 0.
C4_SuccessiveModulo ==
    /\ \A i \in 1 .. Len(frames) - 1 :
          LET a == frames[i].id
              b == frames[i + 1].id
          IN  IF a = IdMax
              THEN b = IdZero
              ELSE /\ IdLess(a, b)
                   /\ (b[1] - a[1]) * HalfWord + (b[2] - a[2]) = 1
    /\ Len(frames) > 0 =>
          LET a == frames[Len(frames)].id
          IN  IF a = IdMax
              THEN identifier = IdZero
              ELSE (identifier[1] - a[1]) * HalfWord + (identifier[2] - a[2]) = 1

\* the frame after the one carrying 2^32 - 1, written on another connection
C4_Witness ==
    /\ Len(frames) = 2
    /\ frames[1].id = IdMax
    /\ frames[1].sock # Nil
    /\ frames[2].sock # Nil
    /\ frames[1].sock # frames[2].sock

\* a Close in flight holds socket c and is about to close it (line 84)
BeingClosed(c) == \E k \in Closers : closer[k].pc = "c84" /\ closer[k].conn = c

\* C5: when the idle timer ended Active and the loop is Idle again, the
\* handle is absent and the connection it had made is closed (or a caller's
\* Close that took it over is closing it).
C5_IdleTimeoutCloses ==
    (pc = "recv" /\ leftBy = "timeout") =>
        (conn = Nil /\ (sock[quit] = "closed" \/ BeingClosed(quit)))

\* C6: a failed connect gives its Send a connect error after exactly one
\* attempt, builds no frame and consumes no identifier, and leaves the loop
\* Idle with no handle until the next request is taken; no request is
\* ever connected for twice.
C6_ConnectFailure ==
    /\ \A r \in Reqs : attempts[r] <= 1
    /\ pc = "replyErr" =>
          /\ result = "connErr"
          /\ conn = Nil
          /\ identifier = idAtAcc
          /\ attempts[ReqOf(arg)] = 1
          /\ FramesOf(ReqOf(arg)) = {}
    /\ \A r \in Reqs : "connErr" \in Results(r) =>
          /\ res[r] = <<"connErr">>
          /\ attempts[r] = 1
          /\ FramesOf(r) = {}
    /\ (arg = NoArg /\ Len(log) > 0 /\ "connErr" \in Results(log[Len(log)][2])) =>
          (pc = "recv" /\ conn = Nil)

\* a Send failed to connect, and the next Send connected on its own
C6_Witness ==
    /\ res[1] = <<"connErr">>
    /\ attempts[2] = 1
    /\ res[2] = <<"ok">>

\* C7: once a caller's Close has returned, the next request the loop takes
\* is taken in Idle and goes through connect.
C7_SendAfterCloseReconnects ==
    [][(afterClose /\ arg = NoArg /\ arg' # NoArg) => pc' = "close79"]_vars

\* C8: a Close that finds no connection returns nil at once and changes
\* nothing.
C8_CloseIdempotent ==
    [][\A k \in Closers :
          (closer'[k].calls = closer[k].calls + 1 /\ conn = Nil) =>
              /\ closer'[k].pc = "idle"
              /\ CloseReturn(closer'[k].last) = "nil"
              /\ UNCHANGED <<loopVars, apnVars, sock, reader, sender, crashed>>
              /\ UNCHANGED <<log, frames, res, attempts, events>>]_vars

\* a second Close, after one that closed a connection, found none
C8_Witness ==
    \E k \in Closers :
        /\ closer[k].calls = 2
        /\ closer[k].last = "noop"
        /\ closer[k].pc = "idle"
        /\ \E j \in SockIds : sock[j] = "closed"

\* C9: nothing ends the send loop: the process never panics.
C9_OwnerNeverCrashes == crashed = "no"

\* C10: the send loop never stands where only the error stream's consumer
\* can let it go on.
C10_LoopNeverWaitsOnConsumer == pc # "publish"

\* the transport failure of connection k as it appears on the error stream:
\* NewNotificationError(p[:0], err), no status bytes
ReadErrOf(k) == [kind |-> "readErr", sock |-> k]

\* connection k carried a write that Send reported as a success
SentOkOn(k) ==
    \E i \in 1 .. Len(frames) : frames[i].sock = k /\ res[frames[i].req] = <<"ok">>

\* C11 (as stated): after a successful send on a connection whose read has
\* failed (the server closed it), the send loop accepts no further Send
\* request until the transport-failure event of that connection has been
\* delivered on the error stream.
C11_EventBeforeNextSend ==
    [][(/\ conn # Nil
        /\ SentOkOn(conn)
        /\ reader[conn] = "pubErr"
        /\ events[ReadErrOf(conn)] = 0)
       => ~(arg = NoArg /\ arg' # NoArg)]_vars

\* C11 (amended): a connection puts at most one transport-failure event on
\* the error stream; it has been delivered, exactly once, by the time its
\* reader signals connection-loss and so by the time the send loop leaves
\* Active on that signal.
C11_OneFailureEvent ==
    /\ \A k \in SockIds : events[ReadErrOf(k)] <= 1
    /\ \A k \in SockIds : reader[k] \in {"signal", "done"} => events[ReadErrOf(k)] = 1
    /\ \A k \in SockIds : reader[k] \in {"none", "reading", "pubData", "pubErr"} => events[ReadErrOf(k)] = 0
    /\ (leftBy = "quit" /\ quit # Nil) => events[ReadErrOf(quit)] = 1

\* a Send succeeded on connection 1, the server closed it, its one event
\* was delivered and the loop left Active on the reader's signal
C11_Witness ==
    /\ SentOkOn(1)
    /\ sock[1] = "open"
    /\ reader[1] = "done"
    /\ leftBy = "quit"
    /\ events[ReadErrOf(1)] = 1

\* what C12 calls a Send that must be refused: an odd number of hex digits,
\* a character that is no hex digit, or a payload of 257 bytes or more
MustRefuse(n) ==
    \/ Len(n.token) % 2 = 1
    \/ \E i \in 1 .. Len(n.token) : n.token[i] \notin HexDigits
    \/ n.plen >= 257

\* C12: a Send with a token that is not valid hex or a payload over 256
\* bytes gets the validation error and no frame for it is ever handed to the
\* connection, and it consumes no identifier; a Send with a hex token and a
\* payload of at most 256 bytes is written.
C12_RejectedNeverWritten ==
    /\ \A s \in Senders :
          (sender[s].pc = "waiting" /\ MustRefuse(sender[s].n)) =>
              /\ FramesOf(ReqOf(s)) = {}
              /\ (arg = s /\ pc = "reply") => (result = "encErr" /\ identifier = idAtAcc)
    /\ \A s \in Senders :
          (sender[s].pc = "waiting" /\ ~MustRefuse(sender[s].n) /\ arg = s /\ pc = "reply") =>
              /\ result \in {"ok", "writeErr"}
              /\ Cardinality(FramesOf(ReqOf(s))) = 1
    /\ \A r \in Reqs : "encErr" \in Results(r) => (res[r] = <<"encErr">> /\ FramesOf(r) = {})

\* a 257-byte Send was refused on an open connection that has carried
\* nothing, and a 256-byte Send on the same connection is about to get its
\* result
C12_Witness ==
    /\ res[1] = <<"encErr">>
    /\ conn # Nil /\ sock[conn] = "open"
    /\ pc = "reply" /\ arg # NoArg
    /\ sender[arg].n.plen = 256
    /\ result = "ok"
    /\ Len(frames) = 1 /\ frames[1].req = 2 /\ frames[1].id = IdZero

(***************************************************************************)
(* The frame codec on its own: send()'s frame for inputs drawn from          *)
(* CodecInputs, read back by the layout                                      *)
(*   u8 command | u32 identifier | u32 expiry | u16 tokenLen | token |       *)
(*   u16 payloadLen | payload, big-endian.                                   *)
(***************************************************************************)
U16At(w, i) == w[i] * 256 + w[i + 1]
U32At(w, i) == <<U16At(w, i), U16At(w, i + 2)>>

\* the reader of the layout; rest is what the frame holds beyond its fields
DecodePushFrame(w) ==
    LET tl == U16At(w, 10)
        pl == U16At(w, 12 + tl)
    IN  [command |-> w[1],
         id      |-> U32At(w, 2),
         expiry  |-> U32At(w, 6),
         token   |-> SubSeq(w, 12, 11 + tl),
         payload |-> SubSeq(w, 14 + tl, 13 + tl + pl),
         rest    |-> Len(w) - (13 + tl + pl)]

InitCodec ==
    /\ InitClient(IdZero)
    /\ codec \in {[stage |-> "input", in |-> x, wire |-> <<>>, out |-> <<>>] : x \in CodecInputs}

\* lines 130-138 on the input
CodecEncode ==
    /\ codec.stage = "input"
    /\ codec' = [codec EXCEPT !.stage = "encoded",
                              !.wire = EncodePushFrame(codec.in.id, codec.in.expiry,
                                                       codec.in.token, codec.in.payload)]
    /\ UNCHANGED <<loopVars, apnVars, envVars, histVars>>

CodecDecode ==
    /\ codec.stage = "encoded"
    /\ codec' = [codec EXCEPT !.stage = "decoded", !.out = DecodePushFrame(codec.wire)]
    /\ UNCHANGED <<loopVars, apnVars, envVars, histVars>>

NextCodec ==
    \/ CodecEncode
    \/ CodecDecode

SpecCodec == InitCodec /\ [][NextCodec]_vars

\* C13: the frame of send() is command 1, identifier, expiry, token length,
\* token, payload length, payload, every integer big-endian and every
\* element a byte, of 13 bytes plus the token and the payload; reading it
\* back by that layout gives the identifier, expiry, token and payload that
\* went in and leaves nothing over.
C13_FrameRoundTrip ==
    /\ codec.stage \in {"encoded", "decoded"} =>
          /\ Len(codec.wire) = 13 + Len(codec.in.token) + Len(codec.in.payload)
          /\ \A i \in 1 .. Len(codec.wire) : codec.wire[i] \in 0 .. 255
          /\ codec.wire[1] = 1
          /\ codec.wire[5] = codec.in.id[2] % 256
          /\ codec.wire[9] = codec.in.expiry[2] % 256
    /\ codec.stage = "decoded" =>
          /\ codec.out.command = 1
          /\ codec.out.id = codec.in.id
          /\ codec.out.expiry = codec.in.expiry
          /\ codec.out.token = codec.in.token
          /\ codec.out.payload = codec.in.payload
          /\ codec.out.rest = 0

\* a token and a payload whose lengths need both bytes of their length
\* fields have gone out with identifier 0x01020304 and come back
C13_Witness ==
    /\ codec.stage = "decoded"
    /\ Len(codec.in.token) = 257
    /\ Len(codec.in.payload) = 256
    /\ codec.in.id = <<258, 772>>
    /\ SubSeq(codec.wire, 2, 5) = <<1, 2, 3, 4>>
    /\ SubSeq(codec.wire, 10, 11) = <<1, 1>>
    /\ SubSeq(codec.wire, 269, 270) = <<1, 0>>
    /\ codec.out.token = codec.in.token
    /\ codec.out.payload = codec.in.payload

\* a step taken by a caller of the public Close, not by the send loop
CallerStep == closer' # closer

\* C14: Apn.conn is assigned only by the send-loop goroutine: no step of
\* another caller changes or clears the handle.
C14_OnlyLoopAssignsConn == [][conn' # conn => ~CallerStep]_vars

\* the send loop is in the Active part (lines 156-167) of the connection
\* whose reader is k, so its select will come to receive from k's quit
LoopListensTo(k) == quit = k /\ pc \in {"send", "reply", "select"}

\* C15: an Error Reader whose read has failed and that stands at its
\* connection-loss signal always has a send loop that will receive the
\* signal, so that it terminates.
C15_ReaderSignalIsTaken ==
    Live => \A k \in SockIds : reader[k] = "signal" => LoopListensTo(k)

\* a Send on connection k completed with a transport write failure
WriteFailedOn(k) ==
    \E i \in 1 .. Len(frames) : frames[i].sock = k /\ res[frames[i].req] = <<"writeErr">>

\* C16: once a Send has completed with a write failure on a connection, the
\* send loop never again stands in send() for a later request with that
\* connection as the current one.
C16_WriteErrorEndsActive ==
    (pc = "send" /\ conn # Nil) => ~WriteFailedOn(conn)

CloseErrEvent == [kind |-> "closeErr", sock |-> Nil]

\* C17: when the send loop is back in Idle after leaving Active on the
\* connection-loss signal or on the idle timer, the handle is absent and
\* the connection it left is closed (or a Close in progress holds it and
\* closes it next); a close failure of the teardown is never the result of
\* a Send.
C17_LeavingActiveCloses ==
    /\ (pc \in {"recv", "publish"} /\ leftBy \in {"quit", "timeout"}) =>
          /\ conn = Nil
          /\ sock[quit] = "closed" \/ BeingClosed(quit)
    /\ \A r \in Reqs : Results(r) \subseteq {"ok", "writeErr", "encErr", "connErr"}
    /\ pc = "publish" => (closeFor = "teardown" /\ arg = NoArg)

\* the low 32 bits of a count
Low32(c) == <<c[2], c[3]>>

\* what the identifiers say besides the count: no request has more than one
\* frame, a failed write has one, a Send refused by connect or by the
\* validation has none and leaves the counter where it found it, and a
\* counter started at 0 puts 0 on the first frame
IdentifierIsPerAttempt ==
    /\ \A r \in Reqs : Cardinality(FramesOf(r)) <= 1
    /\ \A r \in Reqs : "writeErr" \in Results(r) => Cardinality(FramesOf(r)) = 1
    /\ \A r \in Reqs : Results(r) \cap {"encErr", "connErr"} # {} => FramesOf(r) = {}
    /\ (pc \in {"reply", "replyErr"} /\ result \in {"encErr", "connErr"}) => identifier = idAtAcc
    /\ (pc = "reply" /\ result \in {"ok", "writeErr"}) => identifier = NextIdentifier(idAtAcc)
    /\ (nBuilt = <<0, 0, Len(frames)>> /\ Len(frames) >= 1) => frames[1].id = IdZero

\* C18 (as stated): in every reachable state the identifier counter equals
\* the number of frames handed to the transport write call so far, and
\* identifiers are per attempt.
C18_CounterEqualsCount ==
    /\ nBuilt = <<0, identifier[1], identifier[2]>>
    /\ IdentifierIsPerAttempt

\* C18 (amended): in every reachable state the identifier counter equals
\* the number of frames handed to the transport write call so far modulo
\* 2^32, and identifiers are per attempt.
C18_CounterEqualsCountMod ==
    /\ identifier = Low32(nBuilt)
    /\ IdentifierIsPerAttempt

\* the 2^32-th frame failed to be written on one connection and consumed
\* 2^32 - 1; the frame after the reconnect carries 0
C18_Witness ==
    /\ res[1] = <<"writeErr">>
    /\ Len(frames) = 2
    /\ frames[1].id = IdMax /\ frames[2].id = IdZero
    /\ frames[1].sock # frames[2].sock
    /\ frames[1].sock # Nil /\ frames[2].sock = conn /\ conn # Nil
    /\ crashed = "no"
    /\ nBuilt = <<1, 0, 1>>
    /\ identifier = <<0, 1>>

\* sockets that net.Dial opened in a connect() that went on to fail: no
\* readError was ever started on them (line 107 was not reached)
DialedInFailedConnect == {k \in SockIds : sock[k] # "free" /\ reader[k] = "none"}

\* C19: when the connect error is delivered, and ever after, every socket
\* opened by a failed connect attempt has been closed.
C19_FailedConnectLeavesNoSocket ==
    \A k \in DialedInFailedConnect : pc # "dial" => sock[k] = "closed"

\* C20: whatever made the read fail, the step that takes an Error Reader to
\* its connection-loss signal is the delivery of its transport-failure
\* event, the one such event of its connection; the send loop receives a
\* connection-loss signal only from the reader of its current connection
\* and only after that event was taken; and nothing else puts a
\* transport-failure event on the error stream.
C20_PublishBeforeSignal ==
    [][\A k \in SockIds :
        /\ (reader[k] # "signal" /\ reader'[k] = "signal") =>
              /\ reader[k] = "pubErr"
              /\ events[ReadErrOf(k)] = 0
              /\ events'[ReadErrOf(k)] = 1
        /\ (reader[k] # "done" /\ reader'[k] = "done") =>
              /\ reader[k] = "signal"
              /\ pc = "select" /\ quit = k
              /\ events[ReadErrOf(k)] = 1
              /\ leftBy' = "quit"
        /\ events'[ReadErrOf(k)] # events[ReadErrOf(k)] =>
              (reader[k] = "pubErr" /\ reader'[k] = "signal")
      ]_vars

\* the send loop left Active on the idle timer and closed the connection
\* itself; the reader of that connection has delivered its one
\* transport-failure event and stands at its signal
C20_Witness ==
    /\ leftBy = "timeout"
    /\ pc = "recv"
    /\ quit # Nil
    /\ sock[quit] = "closed"
    /\ \A k \in Closers : closer[k].calls = 0
    /\ reader[quit] = "signal"
    /\ events[ReadErrOf(quit)] = 1
====
